---- MODULE Spec2Model ----
(***************************************************************************)
(* A model of GraphqlWsClient (channels_graphql_ws/client.py): the client  *)
(* side of the GraphQL-over-WebSocket protocol.  The client's coroutines   *)
(* are modelled as tasks that suspend at every `await` of the transport's  *)
(* receive; the transport itself and the server behind it are the          *)
(* environment.                                                            *)
(***************************************************************************)
EXTENDS Integers, Sequences, FiniteSets, TLC

(* ------------------------------ bounds --------------------------------- *)
\* Messages with a stamp the server may send in one behaviour.
MaxMsgs == 2
\* Messages the transport buffers before the client pulls them.
MaxInbox == 2

\* GraphqlWsTransport.TIMEOUT: how long one transport receive waits.
TIMEOUT == 2
\* The largest `timeout` argument given to wait_response: a budget that one
\* transport timeout does not exhaust.
MaxT == TIMEOUT + 1
\* A message that is delivered arrives before that timeout.
MaxDelay == TIMEOUT - 1

Tasks == {1, 2}

(* --------------------------- python values ----------------------------- *)
\* `None` where an identifier or a type string is expected.
None == "None"
\* `None` where a structured value (a payload, a response) is expected.
PyNone == [py |-> "None"]
\* A string where a structured value may stand too (a returned message id).
Str(s) == [str |-> s]
\* The sentinel `AUTO = object()`.
AUTO == "AUTO"
\* The identifiers uuid.uuid4().hex may produce.
Uuids == {"id1", "id2"}
\* Identifiers messages of the server carry.
Ids == {"id1", "id2"}

\* An exception: its class, the text it was raised with, the response it
\* carries (GraphqlWsResponseError.response) and its __context__, the
\* exception that was being handled when it was raised.
NoExc == [kind |-> "None"]
Exc(kind, message, response) ==
    [kind |-> kind, message |-> message, response |-> response,
     context |-> NoExc]

(* ------------------------------ messages ------------------------------- *)
PData == [data |-> "ok"]
PErrors == [data |-> "null", errors |-> <<"boom">>]
PEmptyErrors == [data |-> "ok", errors |-> <<>>]

\* The messages the server side may put on the connection: any subset of
\* the fields id, type, payload may be missing.
ServerMsgs ==
    {[type |-> "connection_ack"],
     [type |-> "error"],
     [id |-> "id1", type |-> "data", payload |-> PData],
     [id |-> "id1", type |-> "data", payload |-> PErrors],
     [id |-> "id1", type |-> "data", payload |-> PEmptyErrors],
     [id |-> "id1", type |-> "complete"],
     [id |-> "id2", type |-> "data", payload |-> PData]}

\* Keep-alive messages.
KeepAlives == {[type |-> "ka"]}

\* dict.get(key, None) on a message.
Get(m, key) == IF key \in DOMAIN m THEN m[key] ELSE PyNone

Min(a, b) == IF a < b THEN a ELSE b

(* ------------------------------- state --------------------------------- *)
VARIABLES
    is_connected,   \* GraphqlWsClient._is_connected
    t_state,        \* the transport: "open" or "closed"
    inbox,          \* messages the transport holds for the client, stamped
    n_msgs,         \* stamped messages sent by the server so far
    task,           \* per task: the frame of the coroutine it runs
    ret,            \* per task: how its last operation ended
    dropped,        \* stamps of the messages receive discarded for their id
    accepted        \* stamps of the messages receive accepted, in order

vars == <<is_connected, t_state, inbox, n_msgs, task, ret, dropped,
          accepted>>

\* The frame of a task that runs nothing.
IdleFrame ==
    [op |-> "idle", pc |-> "idle",
     wait_id |-> None, assert_id |-> None, assert_type |-> None,
     raw_response |-> FALSE,
     msg_id |-> None, resp |-> PyNone, exc |-> NoExc, exc2 |-> NoExc,
     checker |-> "none", timeout |-> 0, elapsed |-> 0,
     \* what the call did so far (read by the properties only)
     arg |-> None, msg_type |-> None, payload |-> PyNone,
     torn_down |-> FALSE, budget |-> 0, spent |-> 0,
     pulled |-> 0, n_recv |-> 0, out |-> <<>>, got |-> <<>>,
     was_connected |-> FALSE, robbed |-> FALSE]

NoRet == [status |-> "none", value |-> PyNone, exc |-> NoExc, call |-> IdleFrame]

Init ==
    /\ is_connected = FALSE
    /\ t_state = "closed"
    /\ inbox = <<>>
    /\ n_msgs = 0
    /\ task = [t \in Tasks |-> IdleFrame]
    /\ ret = [t \in Tasks |-> NoRet]
    /\ dropped = {}
    /\ accepted = <<>>

(* ---------------------------- environment ------------------------------ *)
\* Some operation of the client is under way.  The server's messages are
\* followed only then: one that arrives between two operations waits in the
\* transport's buffer, which the client cannot tell from its arriving once
\* the next operation has started.
Busy == \E t \in Tasks : task[t].op # "idle"

\* The server sends one message; the transport buffers it.
ServerSend(m) ==
    /\ Busy
    /\ t_state = "open"
    /\ n_msgs < MaxMsgs
    /\ Len(inbox) < MaxInbox
    /\ n_msgs' = n_msgs + 1
    /\ inbox' = Append(inbox, [n |-> n_msgs + 1, msg |-> m])
    /\ UNCHANGED <<is_connected, t_state, task, ret,
                   dropped, accepted>>

\* The server sends a keep-alive; it may do so for ever.
ServerKeepAlive(m) ==
    /\ Busy
    /\ t_state = "open"
    /\ Len(inbox) < MaxInbox
    /\ inbox' = Append(inbox, [n |-> 0, msg |-> m])
    /\ UNCHANGED <<is_connected, t_state, n_msgs,
                   task, ret, dropped, accepted>>

(* ----------------------------- transport ------------------------------- *)
\* What `await self._transport.connect()` may do: connect, or fail.
transport_connect == {"open", "ConnectionError"}

\* What `await self._transport.receive()` yields now: the next buffered
\* message, or the transport's own TimeoutError when there is none.
transport_receive ==
    IF inbox # <<>> THEN {[kind |-> "msg", sm |-> Head(inbox)]}
    ELSE {[kind |-> "timeout"]}

\* What `await self._transport.wait_disconnect(timeout)` may do.
transport_wait_disconnect ==
    IF t_state = "open" THEN {"closed", "TimeoutError"} ELSE {"TimeoutError"}

\* `await self._transport.send(message)`: whether the transport takes it.
transport_send_ok == t_state = "open"

\* How long the transport receive that yielded `o` may have waited.
Delays(o) == IF o.kind = "msg" THEN 0 .. MaxDelay ELSE {TIMEOUT}

(* ------------------------- frames and results -------------------------- *)
Idle(t) == task[t].op = "idle"

\* A task may start an operation.
CanCall(t) == Idle(t)

NewFrame(op, pc) ==
    [IdleFrame EXCEPT !.op = op, !.pc = pc, !.was_connected = is_connected]

\* The operation of task t ends: it returns `value`, or raises `exc`.
Return(t, f, value) ==
    /\ task' = [task EXCEPT ![t] = IdleFrame]
    /\ ret' = [ret EXCEPT ![t] =
                  [status |-> "ok", value |-> value, exc |-> NoExc, call |-> f]]

Raise(t, f, exc) ==
    /\ task' = [task EXCEPT ![t] = IdleFrame]
    /\ ret' = [ret EXCEPT ![t] =
                  [status |-> "raise", value |-> PyNone, exc |-> exc, call |-> f]]

Begin(t, f) ==
    /\ task' = [task EXCEPT ![t] = f]
    /\ ret' = [ret EXCEPT ![t] = NoRet]

\* The counters of a frame tell none, one and more than one apart.
Inc(n) == IF n = 0 THEN 1 ELSE 2

(* ------------------------- connect_and_init ---------------------------- *)
ConnectionInit == [type |-> "connection_init", payload |-> ""]

\* A connect_and_init that shakes hands whatever connect_only says.
initialize_always(connect_only) == TRUE

\* `if not connect_only`: whether the handshake follows the connect.
initialize(connect_only) == ~connect_only

\* A handshake that takes a keep-alive for the acknowledgement.
is_ack_or_keep_alive(resp) == resp.type \in {"connection_ack", "ka"}

\* `assert resp["type"] == "connection_ack"`, for a resp that has a type.
is_ack(resp) == resp.type = "connection_ack"

\* connect_and_init up to its first suspension: connect the transport and,
\* unless connect_only, send 'connection_init' and wait for the reply.
connect_and_init(t, connect_only) ==
    /\ CanCall(t)
    /\ \E c \in transport_connect :
         LET f == [NewFrame("connect_and_init", "ack") EXCEPT
                       !.arg = IF connect_only THEN "connect_only" ELSE "init"]
         IN
         IF c = "ConnectionError"
         THEN /\ Raise(t, f, Exc("ConnectionError", "connect", PyNone))
              /\ UNCHANGED <<is_connected, t_state, inbox>>
         ELSE /\ t_state' = "open"
              /\ inbox' = IF t_state = "open" THEN inbox ELSE <<>>
              /\ IF initialize(connect_only)
                 THEN /\ task' = [task EXCEPT ![t] =
                                     [f EXCEPT !.out = <<ConnectionInit>>]]
                      /\ ret' = [ret EXCEPT ![t] = NoRet]
                      /\ UNCHANGED is_connected
                 ELSE /\ is_connected' = TRUE
                      /\ Return(t, f, PyNone)
    /\ UNCHANGED <<n_msgs, dropped, accepted>>

\* The reply to 'connection_init' arrives (or the transport times out).
connect_and_init_ack(t) ==
    /\ task[t].op = "connect_and_init"
    /\ \E o \in transport_receive :
         LET f == task[t] IN
         IF o.kind = "timeout"
         THEN /\ Raise(t, f, Exc("TimeoutError", "transport", PyNone))
              /\ UNCHANGED <<is_connected, inbox>>
         ELSE LET resp == o.sm.msg
                  f1 == [f EXCEPT !.pulled = Inc(@), !.got = Append(@, o.sm)]
              IN
              /\ inbox' = Tail(inbox)
              /\ IF "type" \notin DOMAIN resp
                 THEN /\ Raise(t, f1, Exc("KeyError", "type", PyNone))
                      /\ UNCHANGED is_connected
                 ELSE IF ~is_ack(resp)
                 THEN /\ Raise(t, f1, Exc("AssertionError",
                                          "Unexpected response", resp))
                      /\ UNCHANGED is_connected
                 ELSE /\ is_connected' = TRUE
                      /\ Return(t, f1, PyNone)
    /\ UNCHANGED <<t_state, n_msgs, dropped, accepted>>

(* -------------------------------- send --------------------------------- *)
\* A dict that keeps an absent id as a null value.
Message_null_id(msg_id, msg_type, payload) ==
    IF msg_type # None
    THEN IF payload # PyNone
         THEN [id |-> msg_id, type |-> msg_type, payload |-> payload]
         ELSE [id |-> msg_id, type |-> msg_type]
    ELSE IF payload # PyNone
         THEN [id |-> msg_id, payload |-> payload]
         ELSE [id |-> msg_id]

\* The dict `send` builds: a field is in it exactly when its value is not
\* None.
Message(msg_id, msg_type, payload) ==
    IF msg_id # None
    THEN IF msg_type # None
         THEN IF payload # PyNone
              THEN [id |-> msg_id, type |-> msg_type, payload |-> payload]
              ELSE [id |-> msg_id, type |-> msg_type]
         ELSE IF payload # PyNone
              THEN [id |-> msg_id, payload |-> payload]
              ELSE [id |-> msg_id]
    ELSE IF msg_type # None
         THEN IF payload # PyNone
              THEN [type |-> msg_type, payload |-> payload]
              ELSE [type |-> msg_type]
         ELSE IF payload # PyNone
              THEN [payload |-> payload]
              ELSE <<>>

\* The body of `send`, uuid being what uuid4 produces if it is asked: the
\* identifier used, the message, and whether the transport took it.
SendResult(msg_id, msg_type, payload, uuid) ==
    LET id == IF msg_id = AUTO THEN uuid ELSE msg_id
    IN [id |-> id, message |-> Message(id, msg_type, payload),
        ok |-> transport_send_ok]

\* What `await self.send(...)` hands to the transport.
Out(s) == IF s.ok THEN <<s.message>> ELSE <<>>

SendFailed == Exc("ConnectionError", "send", PyNone)

\* The arguments the callers give to send.
SendArgs ==
    {[msg_id |-> i, msg_type |-> a[1], payload |-> a[2]] :
        i \in {AUTO, None, "id2"},
        a \in {<<"stop", PyNone>>, <<None, PData>>}}

send(t, msg_id, msg_type, payload) ==
    /\ CanCall(t)
    /\ \E uuid \in Uuids :
         LET s == SendResult(msg_id, msg_type, payload, uuid)
             f == [NewFrame("send", "send") EXCEPT !.arg = msg_id,
                       !.msg_type = msg_type, !.payload = payload,
                       !.out = Out(s)]
         IN IF s.ok THEN Return(t, f, Str(s.id)) ELSE Raise(t, f, SendFailed)
    /\ UNCHANGED <<is_connected, t_state, inbox, n_msgs, dropped, accepted>>

(* -------------------------------- start -------------------------------- *)
Queries == {"  { field }"}
\* textwrap.dedent on the queries above.
dedent(query) == IF query = "  { field }" THEN "{ field }" ELSE query

EmptyDict == [dict |-> "empty"]
Variables == {PyNone}

\* The arguments `start` passes to `send`.
StartPayload(query, variables) ==
    [query |-> dedent(query),
     variables |-> IF variables = PyNone THEN EmptyDict ELSE variables]

StartResult(query, variables, uuid) ==
    SendResult(AUTO, "start", StartPayload(query, variables), uuid)

start(t, query, variables) ==
    /\ CanCall(t)
    /\ \E uuid \in Uuids :
         LET s == StartResult(query, variables, uuid)
             f == [NewFrame("start", "start") EXCEPT !.out = Out(s)]
         IN IF s.ok THEN Return(t, f, Str(s.id)) ELSE Raise(t, f, SendFailed)
    /\ UNCHANGED <<is_connected, t_state, inbox, n_msgs, dropped, accepted>>

(* ------------------------------ finalize ------------------------------- *)
\* `await self._transport.disconnect()`: it always succeeds, also on a
\* transport that is not open, and what the transport buffered is gone.
transport_disconnect == [t_state |-> "closed", inbox |-> <<>>]

\* A finalize that leaves the transport alone when the client is not
\* connected.
disconnects_if_connected(connected) == connected

\* Whether finalize calls the transport's disconnect: it does, whatever the
\* connection state.
disconnects(connected) == TRUE

finalize(t) ==
    /\ CanCall(t)
    /\ LET f == NewFrame("finalize", "disconnect") IN
       IF disconnects(is_connected)
       THEN /\ t_state' = transport_disconnect.t_state
            /\ inbox' = transport_disconnect.inbox
            /\ Return(t, [f EXCEPT !.torn_down = TRUE], PyNone)
       ELSE /\ UNCHANGED <<t_state, inbox>>
            /\ Return(t, f, PyNone)
    /\ is_connected' = FALSE
    /\ UNCHANGED <<n_msgs, dropped, accepted>>

(* --------------------------- wait_disconnect --------------------------- *)
\* `await self._transport.wait_disconnect(timeout)` returns when the remote
\* side closes the connection within the timeout and raises TimeoutError
\* when it does not (it never does on a transport that is not open).
\* A wait_disconnect that resets the connection state before it waits.
wait_disconnect_resets_first(w, connected) == FALSE

\* The connection state wait_disconnect leaves: `self._is_connected = False`
\* is reached only when the transport's wait returned.
wait_disconnect_state(w, connected) ==
    IF w = "closed" THEN FALSE ELSE connected

wait_disconnect(t, timeout) ==
    /\ CanCall(t)
    /\ \E w \in transport_wait_disconnect :
         LET f == NewFrame("wait_disconnect", "wait") IN
         /\ is_connected' = wait_disconnect_state(w, is_connected)
         /\ IF w = "closed"
            THEN /\ t_state' = "closed"
                 /\ Return(t, f, PyNone)
            ELSE /\ Raise(t, f, Exc("TimeoutError", "wait_disconnect", PyNone))
                 /\ UNCHANGED t_state
    /\ UNCHANGED <<inbox, n_msgs, dropped, accepted>>

(* ------------------------------- receive ------------------------------- *)
\* A keep-alive test that looks for the wrong type tag, so filters nothing.
is_keep_alive_response_wrong_tag(response) ==
    "type" \in DOMAIN response /\ response.type = "keepalive"

\* _is_keep_alive_response: `response.get("type") == "ka"`.
is_keep_alive_response(response) ==
    "type" \in DOMAIN response /\ response.type = "ka"

\* A loop that reads the id with `response.get("id")`: a response without
\* an id is skipped like one with another id.
receive_loop_get_id(wait_id, response) ==
    IF is_keep_alive_response(response) THEN "continue"
    ELSE IF wait_id = None THEN "break"
    ELSE IF "id" \notin DOMAIN response THEN "continue"
    ELSE IF response.id = wait_id THEN "break"
    ELSE "continue"

\* One turn of receive's `while True` loop on the response just pulled:
\* go round again, leave the loop, or fail on `response["id"]`.
receive_loop(wait_id, response) ==
    IF is_keep_alive_response(response) THEN "continue"
    ELSE IF wait_id = None THEN "break"
    ELSE IF "id" \notin DOMAIN response THEN "KeyError"
    ELSE IF response.id = wait_id THEN "break"
    ELSE "continue"

\* The payload classification: `payload is not None and "errors" in payload`.
is_error_payload(payload) ==
    payload # PyNone /\ "errors" \in DOMAIN payload

\* A receive that classifies the payload before it checks type and id.
receive_checks_payload_first(assert_id, assert_type, raw_response, response) ==
    IF is_error_payload(Get(response, "payload"))
    THEN [k |-> "raise",
          exc |-> Exc("GraphqlWsResponseError", "response", response)]
    ELSE IF assert_type # None /\ "type" \notin DOMAIN response
    THEN [k |-> "raise", exc |-> Exc("KeyError", "type", PyNone)]
    ELSE IF assert_type # None /\ response.type # assert_type
    THEN [k |-> "raise", exc |-> Exc("AssertionError", "type", response)]
    ELSE IF assert_id # None /\ "id" \notin DOMAIN response
    THEN [k |-> "raise", exc |-> Exc("KeyError", "id", PyNone)]
    ELSE IF assert_id # None /\ response.id # assert_id
    THEN [k |-> "raise", exc |-> Exc("AssertionError", "id", PyNone)]
    ELSE [k |-> "return",
          value |-> IF ~raw_response THEN Get(response, "payload")
                    ELSE response]

\* What receive does with the response it left the loop with.
receive_checks(assert_id, assert_type, raw_response, response) ==
    IF assert_type # None /\ "type" \notin DOMAIN response
    THEN [k |-> "raise", exc |-> Exc("KeyError", "type", PyNone)]
    ELSE IF assert_type # None /\ response.type # assert_type
    THEN [k |-> "raise", exc |-> Exc("AssertionError", "type", response)]
    ELSE IF assert_id # None /\ "id" \notin DOMAIN response
    THEN [k |-> "raise", exc |-> Exc("KeyError", "id", PyNone)]
    ELSE IF assert_id # None /\ response.id # assert_id
    THEN [k |-> "raise", exc |-> Exc("AssertionError", "id", PyNone)]
    ELSE LET payload == Get(response, "payload") IN
         IF is_error_payload(payload)
         THEN [k |-> "raise",
               exc |-> Exc("GraphqlWsResponseError", "response", response)]
         ELSE [k |-> "return",
               value |-> IF ~raw_response THEN payload ELSE response]

\* A receive that puts the response it skipped back where it took it from.
skip_response_put_back(rest, sm) == <<sm>> \o rest

\* A receive that keeps the response it skipped for a later call.
skip_response_buffered(rest, sm) == Append(rest, sm)

\* What becomes of the transport's buffer when receive goes round its loop
\* again: the response it held is gone.
skip_response(rest, sm) == rest

\* A receive that has the transport read one message ahead of the one it
\* accepts.
accept_response_reads_ahead(rest) == IF rest # <<>> THEN Tail(rest) ELSE rest

\* What becomes of the transport's buffer when receive leaves its loop with
\* the response it pulled: what lies behind that response stays.
accept_response(rest) == rest

\* receive, from the point where the transport's receive yields `o` to the
\* point where receive returns, raises or awaits the transport again; f is
\* the caller's frame.
receive_resume(f, o) ==
    IF o.kind = "timeout"
    THEN [k |-> "raise", f |-> f,
          exc |-> Exc("TimeoutError", "transport", PyNone)]
    ELSE LET response == o.sm.msg
             f1 == [f EXCEPT !.pulled = Inc(@)]
             turn == receive_loop(f.wait_id, response)
         IN
         IF turn = "continue" THEN [k |-> "await", f |-> f1]
         ELSE IF turn = "KeyError"
         THEN [k |-> "raise", f |-> f1, exc |-> Exc("KeyError", "id", PyNone)]
         ELSE LET f2 == [f1 EXCEPT !.got = Append(@, o.sm)]
                  c == receive_checks(f.assert_id, f.assert_type,
                                      f.raw_response, response)
              IN IF c.k = "raise"
                 THEN [k |-> "raise", f |-> f2, exc |-> c.exc]
                 ELSE [k |-> "return", f |-> f2, value |-> c.value]

\* A receive that takes a timeout of the transport for a lost connection.
receive_connected_lost_on_timeout(connected, o) ==
    IF o.kind = "timeout" THEN FALSE ELSE connected

\* `_is_connected` after receive got `o` from the transport: receive has no
\* assignment to it.
receive_connected(connected, o) == connected

\* The effect of that stretch of receive on the connection state and on
\* the transport's buffer, and the record of what was discarded and what
\* was accepted.
Pulled(f, o, r) ==
    /\ is_connected' = receive_connected(is_connected, o)
    /\ inbox' = IF o.kind = "timeout" THEN inbox
                ELSE IF r.k = "await" THEN skip_response(Tail(inbox), o.sm)
                ELSE accept_response(Tail(inbox))
    /\ dropped' = IF /\ o.kind = "msg"
                     /\ r.k = "await"
                     /\ ~is_keep_alive_response(o.sm.msg)
                  THEN dropped \cup {o.sm.n} ELSE dropped
    /\ accepted' = IF Len(r.f.got) > Len(f.got)
                   THEN Append(accepted, o.sm.n) ELSE accepted

\* The arguments the callers give to receive.
ReceiveArgs ==
    {[wait_id |-> w, assert_id |-> None, assert_type |-> None,
      raw_response |-> FALSE] : w \in {None} \cup Ids}
    \cup {[wait_id |-> None, assert_id |-> None, assert_type |-> None,
           raw_response |-> TRUE],
          [wait_id |-> None, assert_id |-> "id1", assert_type |-> "data",
           raw_response |-> FALSE],
          [wait_id |-> None, assert_id |-> "id2", assert_type |-> None,
           raw_response |-> FALSE],
          [wait_id |-> "id1", assert_id |-> None, assert_type |-> "complete",
           raw_response |-> FALSE]}

receive(t, wait_id, assert_id, assert_type, raw_response) ==
    /\ CanCall(t)
    /\ Begin(t, [NewFrame("receive", "receive") EXCEPT
                     !.wait_id = wait_id, !.assert_id = assert_id,
                     !.assert_type = assert_type,
                     !.raw_response = raw_response, !.n_recv = 1])
    /\ UNCHANGED <<is_connected, t_state, inbox, n_msgs,
                   dropped, accepted>>

\* The frames of the tasks when task t has discarded the message sm: a task
\* suspended in a receive that waits for the id of sm is marked (for the
\* properties only).
Robbed(t, sm) ==
    [u \in Tasks |->
        IF /\ u # t
           /\ task[u].op = "receive"
           /\ "id" \in DOMAIN sm.msg
           /\ task[u].wait_id = sm.msg.id
        THEN [task[u] EXCEPT !.robbed = TRUE]
        ELSE task[u]]

\* The transport yields to a task suspended in a plain receive call.
receive_await(t) ==
    /\ task[t].op = "receive"
    /\ \E o \in transport_receive :
         LET r == receive_resume(task[t], o) IN
         /\ Pulled(task[t], o, r)
         /\ IF r.k = "await"
            THEN /\ task' = [(IF o.sm.n \in dropped'
                              THEN Robbed(t, o.sm) ELSE task)
                             EXCEPT ![t] = r.f]
                 /\ UNCHANGED ret
            ELSE IF r.k = "return" THEN Return(t, r.f, r.value)
            ELSE Raise(t, r.f, r.exc)
    /\ UNCHANGED <<t_state, n_msgs>>

(* ------------------------------- execute ------------------------------- *)
\* execute up to its first suspension: start, then the first receive.
execute(t, query, variables) ==
    /\ CanCall(t)
    /\ \E uuid \in Uuids :
         LET s == StartResult(query, variables, uuid)
             f == [NewFrame("execute", "result") EXCEPT !.out = Out(s)]
         IN IF s.ok
            THEN /\ task' = [task EXCEPT ![t] =
                                [f EXCEPT !.msg_id = s.id, !.wait_id = s.id,
                                          !.n_recv = 1]]
                 /\ ret' = [ret EXCEPT ![t] = NoRet]
            ELSE Raise(t, f, SendFailed)
    /\ UNCHANGED <<is_connected, t_state, inbox, n_msgs, dropped, accepted>>

\* An execute without `finally`: a failure of the first receive propagates
\* at once.
execute_try_no_finally(r) ==
    IF r.k = "return"
    THEN [k |-> "await",
          f |-> [r.f EXCEPT !.pc = "complete", !.resp = r.value, !.n_recv = 2]]
    ELSE [k |-> "raise", f |-> r.f, exc |-> r.exc]

\* What execute does when the receive in its `try` ends (r says how): in
\* both cases the `finally` clause starts the second receive, with the
\* result kept in `resp` or the exception pending.
execute_try(r) ==
    IF r.k = "return"
    THEN [k |-> "await",
          f |-> [r.f EXCEPT !.pc = "complete", !.resp = r.value, !.n_recv = 2]]
    ELSE [k |-> "await",
          f |-> [r.f EXCEPT !.pc = "complete", !.exc = r.exc, !.n_recv = 2]]

\* An execute whose cleanup failure loses the pending exception.
execute_finally_unchained(r) ==
    IF r.k = "raise"
    THEN [k |-> "raise", f |-> [r.f EXCEPT !.exc2 = r.exc], exc |-> r.exc]
    ELSE IF r.f.exc # NoExc THEN [k |-> "raise", f |-> r.f, exc |-> r.f.exc]
    ELSE [k |-> "return", f |-> r.f, value |-> r.f.resp]

\* What execute does when the receive in its `finally` ends: an exception
\* of that receive propagates, with the pending one as its __context__;
\* otherwise the pending exception is raised again; otherwise `resp` is
\* returned.
execute_finally(r) ==
    IF r.k = "raise"
    THEN [k |-> "raise", f |-> [r.f EXCEPT !.exc2 = r.exc],
          exc |-> [r.exc EXCEPT !.context = r.f.exc]]
    ELSE IF r.f.exc # NoExc THEN [k |-> "raise", f |-> r.f, exc |-> r.f.exc]
    ELSE [k |-> "return", f |-> r.f, value |-> r.f.resp]

\* The transport yields to a task suspended in one of execute's receives.
execute_await(t) ==
    /\ task[t].op = "execute"
    /\ \E o \in transport_receive :
         LET f == task[t]
             r == receive_resume(f, o)
         IN
         /\ Pulled(f, o, r)
         /\ LET e == IF r.k = "await" THEN r
                     ELSE IF f.pc = "result" THEN execute_try(r)
                     ELSE execute_finally(r)
            IN IF e.k = "await"
               THEN task' = [task EXCEPT ![t] = e.f] /\ UNCHANGED ret
               ELSE IF e.k = "return" THEN Return(t, e.f, e.value)
               ELSE Raise(t, e.f, e.exc)
    /\ UNCHANGED <<t_state, n_msgs>>

(* ------------------------------ subscribe ------------------------------ *)
\* A subscribe that never waits for the confirmation.
confirms_never(wait_confirmation) == FALSE

\* `if wait_confirmation`: whether subscribe receives before it returns.
confirms(wait_confirmation) == wait_confirmation

\* subscribe up to its first suspension: start, then the receive if asked.
subscribe(t, query, variables, wait_confirmation) ==
    /\ CanCall(t)
    /\ \E uuid \in Uuids :
         LET s == StartResult(query, variables, uuid)
             f == [NewFrame("subscribe", "confirm") EXCEPT
                       !.out = Out(s),
                       !.arg = IF wait_confirmation THEN "wait" ELSE "nowait"]
         IN IF ~s.ok THEN Raise(t, f, SendFailed)
            ELSE IF confirms(wait_confirmation)
            THEN /\ task' = [task EXCEPT ![t] =
                                [f EXCEPT !.msg_id = s.id, !.wait_id = s.id,
                                          !.n_recv = 1]]
                 /\ ret' = [ret EXCEPT ![t] = NoRet]
            ELSE Return(t, [f EXCEPT !.msg_id = s.id], Str(s.id))
    /\ UNCHANGED <<is_connected, t_state, inbox, n_msgs, dropped, accepted>>

\* The transport yields to a task suspended in subscribe's receive.
subscribe_await(t) ==
    /\ task[t].op = "subscribe"
    /\ \E o \in transport_receive :
         LET r == receive_resume(task[t], o) IN
         /\ Pulled(task[t], o, r)
         /\ IF r.k = "await"
            THEN task' = [task EXCEPT ![t] = r.f] /\ UNCHANGED ret
            ELSE IF r.k = "return" THEN Return(t, r.f, Str(r.f.msg_id))
            ELSE Raise(t, r.f, r.exc)
    /\ UNCHANGED <<t_state, n_msgs>>

(* ---------------------------- wait_response ---------------------------- *)
\* The response_checker functions the callers pass.
Checkers == {"never", "not_none"}
response_checker(checker, response) ==
    IF checker = "never" THEN FALSE ELSE response # PyNone

\* The `timeout` arguments: None, or a number of seconds.
Timeouts == {PyNone, [sec |-> 0], [sec |-> MaxT]}
\* `if timeout is None: timeout = self._transport.TIMEOUT`.
default_timeout(timeout) == IF timeout = PyNone THEN TIMEOUT ELSE timeout.sec

\* Elapsed time is not counted beyond the largest budget.
ElapsedCap == MaxT

\* A loop that gives up while one unit of the budget is still left.
wait_more_gives_up_early(timeout) == timeout > 1

\* The loop condition `while timeout > 0`.
wait_more(timeout) == timeout > 0

\* `timeout -= time.monotonic() - start`.
remaining(timeout, elapsed) == timeout - elapsed

WaitTimedOut == Exc("TimeoutError", "wait_response", PyNone)

\* wait_response up to its first suspension.
wait_response(t, checker, timeout) ==
    /\ CanCall(t)
    /\ LET f == [NewFrame("wait_response", "receive") EXCEPT
                     !.checker = checker,
                     !.timeout = default_timeout(timeout),
                     !.budget = default_timeout(timeout)]
       IN IF wait_more(f.timeout)
          THEN /\ task' = [task EXCEPT ![t] = [f EXCEPT !.n_recv = 1]]
               /\ ret' = [ret EXCEPT ![t] = NoRet]
          ELSE Raise(t, f, WaitTimedOut)
    /\ UNCHANGED <<is_connected, t_state, inbox, n_msgs,
                   dropped, accepted>>

\* The end of one iteration of wait_response's loop that did not return:
\* the budget is reduced by the time the iteration took, and the loop goes
\* round again or gives up.
wait_response_next(t, f) ==
    LET left == remaining(f.timeout, f.elapsed)
        f1 == [f EXCEPT !.timeout = left, !.elapsed = 0, !.got = <<>>,
                        !.spent = Min(@ + f.elapsed, ElapsedCap)]
    IN IF wait_more(left)
       THEN /\ task' = [task EXCEPT ![t] = [f1 EXCEPT !.n_recv = Inc(@)]]
            /\ UNCHANGED ret
       ELSE Raise(t, f1, WaitTimedOut)

\* A wait_response that ignores every failure of receive.
swallows_any(exc) == TRUE

\* `except asyncio.TimeoutError: pass`: the failures of receive that
\* wait_response ignores.
swallows(exc) == exc.kind = "TimeoutError"

\* The transport yields `o` to a task suspended in wait_response's receive,
\* d units of time after the receive began to wait for it.
wait_response_resume(t, o, d) ==
    /\ task[t].op = "wait_response"
    /\ LET f == [task[t] EXCEPT !.elapsed = Min(@ + d, ElapsedCap)]
           r == receive_resume(f, o)
       IN
       /\ Pulled(f, o, r)
       /\ IF r.k = "await"
          THEN task' = [task EXCEPT ![t] = r.f] /\ UNCHANGED ret
          ELSE IF r.k = "return"
          THEN IF response_checker(f.checker, r.value)
               THEN Return(t, r.f, r.value)
               ELSE wait_response_next(t, r.f)
          ELSE IF swallows(r.exc)
          THEN wait_response_next(t, r.f)
          ELSE Raise(t, r.f, r.exc)
    /\ UNCHANGED <<t_state, n_msgs>>

wait_response_await(t) ==
    \E o \in transport_receive : \E d \in Delays(o) :
        wait_response_resume(t, o, d)

\* The same, when the receive had to wait: time has advanced.
wait_response_late(t) ==
    \E o \in transport_receive : \E d \in Delays(o) \ {0} :
        wait_response_resume(t, o, d)

(* --------------------------- specifications ---------------------------- *)
\* A step of the server or of the network.
Environment ==
    \/ \E m \in ServerMsgs : ServerSend(m)
    \/ \E m \in KeepAlives : ServerKeepAlive(m)

\* A caller starts an operation on task t.
Call(t) ==
    \/ \E connect_only \in BOOLEAN : connect_and_init(t, connect_only)
    \/ \E a \in SendArgs : send(t, a.msg_id, a.msg_type, a.payload)
    \/ \E query \in Queries, variables \in Variables :
          start(t, query, variables)
    \/ \E a \in ReceiveArgs :
          receive(t, a.wait_id, a.assert_id, a.assert_type, a.raw_response)
    \/ \E query \in Queries, variables \in Variables :
          execute(t, query, variables)
    \/ \E query \in Queries, variables \in Variables,
          wait_confirmation \in BOOLEAN :
          subscribe(t, query, variables, wait_confirmation)
    \/ \E checker \in Checkers, timeout \in Timeouts :
          wait_response(t, checker, timeout)
    \/ \E timeout \in {PyNone} : wait_disconnect(t, timeout)
    \/ finalize(t)

\* A suspended operation of task t goes on.
Resume(t) ==
    \/ connect_and_init_ack(t)
    \/ receive_await(t)
    \/ execute_await(t)
    \/ subscribe_await(t)
    \/ wait_response_await(t)

\* One caller: the operations of the client run one at a time.
Next == Environment \/ Call(1) \/ Resume(1)

Spec == Init /\ [][Next]_vars

\* Two callers whose receive calls overlap on one client that is connected.
ConcCall(t) ==
    \E wait_id \in Ids : receive(t, wait_id, None, None, FALSE)

ConcNext ==
    \/ Environment
    \/ connect_and_init(1, TRUE)
    \/ \E t \in Tasks : ConcCall(t)
    \/ \E t \in Tasks : receive_await(t)

ConcSpec == Init /\ [][ConcNext]_vars

\* The event loop resumes a suspended coroutine once the transport's receive
\* has a message or has timed out, and time does not stand still.
FairSpec == Spec /\ WF_vars(Resume(1)) /\ SF_vars(wait_response_late(1))

(* ----------------------------- properties ------------------------------ *)
\* Task t is suspended in an operation that calls receive.
Receiving(t) ==
    task[t].op \in {"receive", "execute", "subscribe", "wait_response"}

\* A step in which the transport hands its next message to the client.
PullsHead == inbox # <<>> /\ inbox' = Tail(inbox)

KeepAlive(m) == "type" \in DOMAIN m /\ m.type = "ka"
HasId(m, id) == "id" \in DOMAIN m /\ m.id = id

\* What a plain receive returns for the message it accepted.
Returned(f, m) == IF f.raw_response THEN m ELSE Get(m, "payload")

\* The last operation of task t was `op` and has ended.
Ended(t, op) == ret[t].status # "none" /\ ret[t].call.op = op

\* C1: a keep-alive pulled by receive (called directly or by execute,
\* subscribe, wait_response) is neither accepted nor returned and does not
\* end the call; and a message with id X pulled by receive(wait_id=X) is
\* accepted, a plain receive returning it.
C1_KeepAliveInvisible ==
    [][\A t \in Tasks :
        (Receiving(t) /\ PullsHead) =>
            LET f == task[t]
                sm == Head(inbox)
            IN
            /\ KeepAlive(sm.msg) =>
                  /\ task'[t].op = f.op
                  /\ task'[t].got = f.got
                  /\ ret'[t] = ret[t]
                  /\ accepted' = accepted
            /\ (~KeepAlive(sm.msg) /\ f.wait_id # None
                    /\ HasId(sm.msg, f.wait_id)) =>
                  /\ accepted' = Append(accepted, sm.n)
                  /\ (/\ f.op = "receive"
                      /\ f.assert_id = None /\ f.assert_type = None
                      /\ "errors" \notin DOMAIN Get(sm.msg, "payload")) =>
                        /\ ret'[t].status = "ok"
                        /\ ret'[t].value = Returned(f, sm.msg)
                        /\ ret'[t].call.got = <<sm>>
    ]_vars

\* receive(wait_id="id1") has returned the reply after pulling keep-alives
\* only before it.
C1_Witness ==
    /\ Ended(1, "receive")
    /\ ret[1].status = "ok"
    /\ ret[1].call.wait_id = "id1"
    /\ ret[1].call.pulled = 2
    /\ dropped = {}

\* C2: a message receive discarded for its id is gone: it is not in the
\* transport's buffer any more, and no receive accepts or returns it later.
C2_DroppedNeverReturned ==
    /\ \A i \in 1 .. Len(inbox) : inbox[i].n \notin dropped
    /\ \A i \in 1 .. Len(accepted) : accepted[i] \notin dropped
    /\ \A t \in Tasks :
          /\ \A i \in 1 .. Len(task[t].got) : task[t].got[i].n \notin dropped
          /\ \A i \in 1 .. Len(ret[t].call.got) :
                ret[t].call.got[i].n \notin dropped

\* After an earlier call discarded message 1, receive(wait_id="id2") has
\* returned the first message it pulled, message 2.
C2_Witness ==
    /\ Ended(1, "receive")
    /\ ret[1].status = "ok"
    /\ ret[1].call.wait_id = "id2"
    /\ ret[1].call.pulled = 1
    /\ dropped = {1}
    /\ Len(ret[1].call.got) = 1 /\ ret[1].call.got[1].n = 2

IsStart(m, id) ==
    DOMAIN m = {"id", "type", "payload"} /\ m.type = "start" /\ m.id = id

\* C3: execute sends one 'start' and then calls receive exactly twice, both
\* times with wait_id the id of that 'start': it ends only after the second
\* receive, returns the payload the first one accepted, and a failure of
\* the first one stays pending while the second one runs.
C3_ExecuteTwoReceives ==
    \A t \in Tasks :
        /\ task[t].op = "execute" =>
              LET f == task[t] IN
              /\ Len(f.out) = 1 /\ IsStart(f.out[1], f.msg_id)
              /\ f.wait_id = f.msg_id
              /\ f.pc = "result" =>
                    f.n_recv = 1 /\ f.got = <<>> /\ f.exc = NoExc
              /\ f.pc = "complete" => f.n_recv = 2
        /\ (Ended(t, "execute") /\ ret[t].call.out # <<>>) =>
              LET f == ret[t].call IN
              /\ Len(f.out) = 1 /\ IsStart(f.out[1], f.msg_id)
              /\ f.wait_id = f.msg_id
              /\ f.n_recv = 2
              /\ \A i \in 1 .. Len(f.got) : HasId(f.got[i].msg, f.msg_id)
              /\ ret[t].status = "ok" =>
                    /\ Len(f.got) = 2
                    /\ f.got[1].n < f.got[2].n
                    /\ ret[t].value = Get(f.got[1].msg, "payload")
              /\ f.exc # NoExc => ret[t].status = "raise"
              /\ (f.exc # NoExc /\ f.exc2 = NoExc) => ret[t].exc = f.exc

\* execute has raised the response error of its result after its second
\* receive consumed the 'complete'.
C3_Witness ==
    /\ Ended(1, "execute")
    /\ ret[1].exc.kind = "GraphqlWsResponseError"
    /\ ret[1].call.exc2 = NoExc
    /\ Len(ret[1].call.got) = 2
    /\ ret[1].call.got[2].msg.type = "complete"

\* Both receives of the last execute of task t failed.
BothFailed(t) ==
    /\ Ended(t, "execute")
    /\ ret[t].call.exc # NoExc
    /\ ret[t].call.exc2 # NoExc

\* C4 as claimed: when both receives of execute fail, execute raises the
\* failure of the first one.
C4_PrimaryDelivered ==
    \A t \in Tasks : BothFailed(t) => ret[t].exc = ret[t].call.exc

\* C4 as amended: when both receives of execute fail, execute raises the
\* failure of the second (cleanup) receive, and the failure of the first
\* one is its __context__: neither is lost.
C4_CleanupDeliveredPrimaryChained ==
    \A t \in Tasks :
        BothFailed(t) =>
            /\ ret[t].status = "raise"
            /\ ret[t].exc = [ret[t].call.exc2 EXCEPT
                                 !.context = ret[t].call.exc]

\* The result carried errors and the 'complete' never came.
C4_Witness ==
    /\ BothFailed(1)
    /\ ret[1].call.exc.kind = "GraphqlWsResponseError"
    /\ ret[1].call.exc2.kind = "TimeoutError"

NonEmptyErrors(m) ==
    /\ "payload" \in DOMAIN m
    /\ "errors" \in DOMAIN m.payload
    /\ m.payload.errors # <<>>

\* C5 as claimed: a receive without assertions raises the response error,
\* carrying the response, exactly when the message it accepted has a payload
\* with a non-empty errors collection; otherwise it returns normally.
C5_ErrorsClassification ==
    \A t \in Tasks :
        (/\ Ended(t, "receive")
         /\ ret[t].call.assert_id = None /\ ret[t].call.assert_type = None
         /\ Len(ret[t].call.got) = 1) =>
            LET m == ret[t].call.got[1].msg IN
            IF NonEmptyErrors(m)
            THEN /\ ret[t].status = "raise"
                 /\ ret[t].exc.kind = "GraphqlWsResponseError"
                 /\ ret[t].exc.response = m
            ELSE /\ ret[t].status = "ok"
                 /\ ret[t].value = Returned(ret[t].call, m)

\* The last operation of task t was wait_response and has ended.
WaitEnded(t) == Ended(t, "wait_response")

\* C6: wait_response returns the payload of the first message that is not a
\* keep-alive and satisfies the checker: what it returns is the payload of
\* the message it accepted last, which satisfies the checker, and a message
\* pulled whose payload satisfies the checker ends the call at once with
\* that payload.  The transport's own timeout never reaches the caller, and
\* wait_response raises its TimeoutError only when the time its iterations
\* took has reached the budget T.
C6_WaitResponse ==
    /\ [](\A t \in Tasks :
            WaitEnded(t) =>
                LET f == ret[t].call IN
                /\ ret[t].status = "ok" =>
                      /\ Len(f.got) = 1
                      /\ ~KeepAlive(f.got[1].msg)
                      /\ ret[t].value = Get(f.got[1].msg, "payload")
                      /\ response_checker(f.checker, ret[t].value)
                /\ ret[t].status = "raise" =>
                      /\ ret[t].exc.message # "transport"
                      /\ ret[t].exc.kind = "TimeoutError" =>
                            /\ ret[t].exc = WaitTimedOut
                            /\ f.spent >= f.budget)
    /\ [][\A t \in Tasks :
            (task[t].op = "wait_response" /\ PullsHead) =>
                LET m == Head(inbox).msg
                    payload == Get(m, "payload")
                IN (/\ ~KeepAlive(m)
                    /\ "errors" \notin DOMAIN payload
                    /\ response_checker(task[t].checker, payload)) =>
                        /\ ret'[t].status = "ok"
                        /\ ret'[t].value = payload
       ]_vars

\* wait_response(timeout=MaxT) has raised TimeoutError after more than one
\* iteration, having pulled more than one message.
C6_Witness ==
    /\ WaitEnded(1)
    /\ ret[1].exc = WaitTimedOut
    /\ ret[1].call.budget = MaxT
    /\ ret[1].call.pulled = 2
    /\ ret[1].call.n_recv = 2

\* C7 as claimed: with time advancing and every receive of the transport
\* yielding a message or its timeout, a wait_response that has started
\* ends, whatever the server sends.
C7_WaitResponseTerminates ==
    \A t \in Tasks :
        (task[t].op = "wait_response") ~> (task[t].op # "wait_response")

\* C8: subscribe returns the id of the 'start' it sent; with
\* wait_confirmation it does so only after it accepted one message with that
\* id, and without it, having pulled no message from the transport.
C8_SubscribeConfirmation ==
    \A t \in Tasks :
        /\ task[t].op = "subscribe" =>
              /\ task[t].arg = "wait"
              /\ task[t].got = <<>>
              /\ ret[t].status = "none"
        /\ (Ended(t, "subscribe") /\ ret[t].status = "ok") =>
              LET f == ret[t].call IN
              /\ ret[t].value = Str(f.msg_id)
              /\ Len(f.out) = 1 /\ IsStart(f.out[1], f.msg_id)
              /\ f.arg = "wait" =>
                    /\ Len(f.got) = 1
                    /\ HasId(f.got[1].msg, f.msg_id)
                    /\ ~KeepAlive(f.got[1].msg)
              /\ f.arg = "nowait" => f.pulled = 0 /\ f.got = <<>>

\* subscribe(wait_confirmation=True) has returned after it pulled more than
\* one message, the last of them carrying the id of its 'start'.
C8_Witness ==
    /\ Ended(1, "subscribe")
    /\ ret[1].status = "ok"
    /\ ret[1].call.arg = "wait"
    /\ ret[1].call.pulled = 2
    /\ Len(ret[1].call.got) = 1

\* The last operation of task t was connect_and_init, called with `arg`
\* ("init" or "connect_only"), and has ended.
ConnectEnded(t, arg) ==
    Ended(t, "connect_and_init") /\ ret[t].call.arg = arg

\* C9: the handshake sends 'connection_init' once the transport is open and
\* takes exactly the next message the transport delivers: the call ends at
\* the step that pulls it.  A 'connection_ack' makes the client connected;
\* a message of any other type fails the call with the assertion's error
\* and leaves the connected state as it was.
C9_Handshake ==
    /\ [](\A t \in Tasks :
            /\ task[t].op = "connect_and_init" =>
                  /\ task[t].arg = "init"
                  /\ task[t].out = <<ConnectionInit>>
                  /\ task[t].pulled = 0
                  /\ t_state = "open"
            /\ (ConnectEnded(t, "init") /\ ret[t].call.out # <<>>) =>
                  LET f == ret[t].call IN
                  /\ f.out = <<ConnectionInit>>
                  /\ f.pulled <= 1
                  /\ Len(f.got) = f.pulled
                  /\ f.pulled = 1 =>
                        IF f.got[1].msg.type = "connection_ack"
                        THEN ret[t].status = "ok" /\ is_connected
                        ELSE /\ ret[t].status = "raise"
                             /\ ret[t].exc.kind = "AssertionError"
                             /\ ret[t].exc.response = f.got[1].msg
                             /\ is_connected = f.was_connected
                  /\ ret[t].status = "raise" =>
                        is_connected = f.was_connected)
    /\ [][\A t \in Tasks :
            (task[t].op = "connect_and_init" /\ PullsHead) =>
                /\ task'[t].op = "idle"
                /\ ret'[t].call.got = <<Head(inbox)>>
       ]_vars

\* The handshake of a client that was not connected has failed on a
\* keep-alive.
C9_Witness ==
    /\ ConnectEnded(1, "init")
    /\ ret[1].exc.kind = "AssertionError"
    /\ ret[1].call.got[1].msg.type = "ka"
    /\ ~ret[1].call.was_connected
    /\ ~is_connected

\* C10: connect_and_init(connect_only=True) never waits for a reply; once
\* the transport has connected it returns with the client connected, having
\* sent nothing and pulled nothing.
C10_ConnectOnly ==
    \A t \in Tasks :
        /\ task[t].op = "connect_and_init" => task[t].arg # "connect_only"
        /\ ConnectEnded(t, "connect_only") =>
              LET f == ret[t].call IN
              /\ f.out = <<>>
              /\ f.pulled = 0 /\ f.got = <<>>
              /\ ret[t].status = "ok" => is_connected /\ t_state = "open"
              /\ ret[t].status = "raise" =>
                    /\ ret[t].exc.kind = "ConnectionError"
                    /\ is_connected = f.was_connected

\* connect_and_init(connect_only=True) has returned on a client that was
\* not connected before.
C10_Witness ==
    /\ ConnectEnded(1, "connect_only")
    /\ ret[1].status = "ok"
    /\ ~ret[1].call.was_connected
    /\ is_connected

\* C11: finalize calls the transport's disconnect and leaves the client
\* disconnected, whatever the connection state was, also on a client that
\* was never connected or was finalized before.
C11_FinalizeResets ==
    /\ [](\A t \in Tasks :
            Ended(t, "finalize") =>
                /\ ret[t].status = "ok"
                /\ ret[t].call.torn_down
                /\ ~is_connected
                /\ t_state = "closed")
    /\ [][\A t \in Tasks :
            (Ended(t, "finalize") /\ ~is_connected
                /\ ret'[t] # ret[t] /\ ret'[t].call.op = "finalize") =>
                    /\ ~is_connected'
                    /\ ret'[t].call.torn_down
       ]_vars

\* finalize has ended on a client that was not connected when it was
\* called.
C11_Witness ==
    /\ Ended(1, "finalize")
    /\ ~ret[1].call.was_connected
    /\ ret[1].call.torn_down
    /\ ~is_connected

\* C12: wait_disconnect leaves the client disconnected when the transport
\* reports that the remote side closed the connection; when the transport's
\* wait times out it raises TimeoutError and the connection state is what
\* it was before the call.
C12_WaitDisconnect ==
    \A t \in Tasks :
        Ended(t, "wait_disconnect") =>
            /\ ret[t].status = "ok" => ~is_connected /\ t_state = "closed"
            /\ ret[t].status = "raise" =>
                  /\ ret[t].exc.kind = "TimeoutError"
                  /\ is_connected = ret[t].call.was_connected

\* wait_disconnect has timed out on a connected client.
C12_Witness ==
    /\ Ended(1, "wait_disconnect")
    /\ ret[1].exc.kind = "TimeoutError"
    /\ ret[1].call.was_connected
    /\ is_connected

\* C13: the message send hands to the transport has an 'id' exactly when
\* msg_id is not None: the id given, or with AUTO a generated one, and that
\* id is what send returns (None when there is none).  It has a 'type' and
\* a 'payload' exactly when they were given, with the values given.
C13_SendMessage ==
    \A t \in Tasks :
        (Ended(t, "send") /\ ret[t].status = "ok") =>
            LET f == ret[t].call
                m == f.out[1]
            IN
            /\ Len(f.out) = 1
            /\ f.arg = None =>
                  "id" \notin DOMAIN m /\ ret[t].value = Str(None)
            /\ f.arg = AUTO =>
                  /\ "id" \in DOMAIN m
                  /\ m.id \in Uuids
                  /\ ret[t].value = Str(m.id)
            /\ f.arg \notin {None, AUTO} =>
                  /\ "id" \in DOMAIN m
                  /\ m.id = f.arg
                  /\ ret[t].value = Str(f.arg)
            /\ ("type" \in DOMAIN m) = (f.msg_type # None)
            /\ "type" \in DOMAIN m => m.type = f.msg_type
            /\ ("payload" \in DOMAIN m) = (f.payload # PyNone)
            /\ "payload" \in DOMAIN m => m.payload = f.payload

\* send(msg_id=None, payload=...) has transmitted a message that has a
\* payload only.
C13_Witness ==
    /\ Ended(1, "send")
    /\ ret[1].status = "ok"
    /\ ret[1].call.arg = None
    /\ ret[1].call.msg_type = None
    /\ DOMAIN ret[1].call.out[1] = {"payload"}

\* The sequence s is strictly increasing.
Increasing(s) == \A i, j \in 1 .. Len(s) : i < j => s[i] < s[j]

\* C14: while a receive is under way the transport's buffer loses at most
\* its head in a step, and exactly its head in the step that accepts a
\* message; a receive without wait_id accepts every message it pulls that
\* is not a keep-alive; so the messages accepted are in the order the
\* transport produced them, none of them twice.
C14_ReceiveOrder ==
    /\ [](Increasing(accepted))
    /\ [][\A t \in Tasks :
            Receiving(t) =>
                /\ \/ inbox' = inbox
                   \/ PullsHead
                   \/ /\ Len(inbox') = Len(inbox) + 1
                      /\ SubSeq(inbox', 1, Len(inbox)) = inbox
                /\ accepted' # accepted =>
                      /\ PullsHead
                      /\ accepted' = Append(accepted, Head(inbox).n)
                /\ (/\ PullsHead
                    /\ task[t].wait_id = None
                    /\ ~KeepAlive(Head(inbox).msg)) =>
                      accepted' = Append(accepted, Head(inbox).n)
       ]_vars

\* A receive without wait_id has returned message 2, the only message it
\* pulled, after message 1 had been accepted.
C14_Witness ==
    /\ Ended(1, "receive")
    /\ ret[1].call.wait_id = None
    /\ ret[1].call.pulled = 1
    /\ Len(ret[1].call.got) = 1 /\ ret[1].call.got[1].n = 2
    /\ accepted = <<1, 2>>

\* The operations that wait for messages.
Waits == {"receive", "execute", "subscribe", "wait_response"}

\* C15: no step of receive, execute, subscribe or wait_response changes the
\* connection state, so when such a call has ended, by a timeout or
\* otherwise, the state is what it was when the call began; a step that
\* changes it is a step of connect_and_init, finalize or wait_disconnect.
C15_WaitingKeepsState ==
    /\ [](\A t \in Tasks :
            /\ task[t].op \in Waits => is_connected = task[t].was_connected
            /\ (ret[t].status # "none" /\ ret[t].call.op \in Waits) =>
                  is_connected = ret[t].call.was_connected)
    /\ [][is_connected' # is_connected =>
            \E t \in Tasks :
                \/ task[t].op = "connect_and_init"
                \/ /\ task[t].op = "idle"
                   /\ ret'[t].call.op \in {"connect_and_init", "finalize",
                                           "wait_disconnect"}
       ]_vars

\* wait_response has timed out on a connected client, which is still
\* connected.
C15_Witness ==
    /\ WaitEnded(1)
    /\ ret[1].exc = WaitTimedOut
    /\ ret[1].call.was_connected
    /\ is_connected

\* C16: the client keeps no registry of waiters: a reply that one receive
\* discarded while another receive was waiting for its id is gone, it is
\* never again in the transport's buffer and the waiter it was meant for
\* never accepts it.
C16_NoRegistry ==
    /\ \A i \in 1 .. Len(inbox) : inbox[i].n \notin dropped
    /\ \A t \in Tasks :
          /\ task[t].robbed =>
                \A i \in 1 .. Len(task[t].got) :
                    task[t].got[i].n \notin dropped
          /\ ret[t].call.robbed =>
                \A i \in 1 .. Len(ret[t].call.got) :
                    ret[t].call.got[i].n \notin dropped

\* While task 1 waited in receive(wait_id="id1") task 2, in a receive for
\* another id, pulled and discarded the reply for "id1"; task 1 pulled
\* nothing and its receive has timed out.
C16_Witness ==
    /\ Ended(1, "receive")
    /\ ret[1].call.robbed
    /\ ret[1].call.wait_id = "id1"
    /\ ret[1].call.pulled = 0
    /\ ret[1].exc.kind = "TimeoutError"
    /\ dropped # {}

\* The operations that send a 'start'.
Starts == {"start", "execute", "subscribe"}

\* C17 as claimed: a 'start' is put on the transport only by a call made
\* while the client is connected.
C17_StartOnlyWhenConnected ==
    \A t \in Tasks :
        /\ (task[t].op \in Starts /\ task[t].out # <<>>) =>
              task[t].was_connected
        /\ (Ended(t, "start") \/ Ended(t, "execute")
                \/ Ended(t, "subscribe")) =>
              (ret[t].call.out # <<>> => ret[t].call.was_connected)

\* The stamps of the messages in the transport's buffer.
Buffered == {inbox[i].n : i \in 1 .. Len(inbox)}

\* C18: receive checks the message it accepted, and no other: first its
\* type against assert_type, then its id against assert_id, and only then
\* its payload for errors; the first check that fails gives the error.  A
\* message pulled and not accepted fails nothing, and a message a check
\* failed on is no longer in the transport's buffer.
C18_CheckOrder ==
    /\ [](\A t \in Tasks :
            (Ended(t, "receive") /\ Len(ret[t].call.got) = 1) =>
                LET f == ret[t].call
                    m == f.got[1].msg
                    bad_type == f.assert_type # None /\ m.type # f.assert_type
                    bad_id == /\ f.assert_id # None
                              /\ "id" \in DOMAIN m
                              /\ m.id # f.assert_id
                IN
                /\ bad_type =>
                      /\ ret[t].exc.kind = "AssertionError"
                      /\ ret[t].exc.message = "type"
                /\ (~bad_type /\ bad_id) =>
                      /\ ret[t].exc.kind = "AssertionError"
                      /\ ret[t].exc.message = "id"
                /\ (~bad_type /\ ~bad_id /\ NonEmptyErrors(m)
                        /\ (f.assert_id # None => "id" \in DOMAIN m)) =>
                      ret[t].exc.kind = "GraphqlWsResponseError"
                /\ ret[t].status = "raise" => f.got[1].n \notin Buffered)
    /\ [][\A t \in Tasks :
            (task[t].op = "receive" /\ PullsHead) =>
                /\ accepted' = accepted =>
                      \/ task'[t].op = "receive"
                      \/ ret'[t].exc.kind = "KeyError"
                /\ ret'[t].status = "raise" =>
                      Head(inbox).n \notin {inbox'[i].n : i \in 1 .. Len(inbox')}
       ]_vars

\* receive(wait_id="id1", assert_type="complete") discarded a message,
\* then accepted one of another type whose payload has errors, and failed
\* on the type.
C18_Witness ==
    /\ Ended(1, "receive")
    /\ ret[1].call.assert_type = "complete"
    /\ ret[1].call.pulled = 2
    /\ Len(ret[1].call.got) = 1
    /\ NonEmptyErrors(ret[1].call.got[1].msg)
    /\ ret[1].exc.kind = "AssertionError"
    /\ ret[1].exc.message = "type"

\* The exception exc is the KeyError of `response["id"]`.
MissingId(exc) == exc.kind = "KeyError" /\ exc.message = "id"

====
